---- MODULE Spec2Model ----
(***************************************************************************)
(* Reachability bookkeeping of a service node:                             *)
(* loki::reachability_records_t (httpserver/reachability_testing.cpp).     *)
(*                                                                         *)
(* Time is the reading of std::chrono::steady_clock, counted in clock      *)
(* ticks; TicksPerSecond is the resolution of the modelled clock.          *)
(***************************************************************************)
EXTENDS Integers, FiniteSets, TLC

\* ------------------------------------------------------------------ bounds
\* resolution of the modelled clock
TicksPerSecond == 2
\* the clock moves forward TickMinutes minutes at a time
TickMinutes == 120
\* the clock stops after MaxTicks steps
MaxTicks == 2

Second == TicksPerSecond
Minute == 60 * Second
Tick == TickMinutes * Minute
MaxTime == MaxTicks * Tick

\* every reading the clock can give
Times == {k * Tick : k \in 0..MaxTicks}

\* sn_pub_key_t values under test
Peers == {"sn1", "sn2"}

ReachType == {"HTTP", "ZMQ"}
ReportType == {"GOOD", "BAD"}

\* ------------------------------------------------------- program constants
\* constexpr std::chrono::minutes UNREACH_GRACE_PERIOD = 120min;
UNREACH_GRACE_PERIOD == 120 * Minute

\* PING_PEERS_INTERVAL comes from a header that is not part of the sources
PING_PEERS_INTERVAL == 10 * Second

\* constexpr auto MAX_TIME_WITHOUT_PING = PING_PEERS_INTERVAL * 18;
MAX_TIME_WITHOUT_PING == PING_PEERS_INTERVAL * 18

\* time_point_t{}: the epoch, the value of a never-set latest_incoming_*_
Epoch == 0

\* ------------------------------------------------------------------- state
VARIABLES
    now,                    \* steady_clock::now()
    offline_nodes_,         \* sn_pub_key_t -> reach_record_t, a partial map
    http_ok,                \* reachability_records_t::http_ok (self health)
    lmq_ok,                 \* reachability_records_t::lmq_ok (self health)
    latest_incoming_http_,  \* time of the latest inbound http ping
    latest_incoming_lmq_,   \* time of the latest inbound lmq ping
    last_call,              \* the call that produced this state, with its result
    streak_start,           \* history: start time of each peer's current streak
    streak_reported,        \* history: set_reported called since the streak started
    set_reported_called,    \* history: set_reported called since the record was created
    failed_since_healthy,   \* history: a failure was seen since the peer was last fully healthy
    sched,                  \* the re-test loop of the caller: what it does next, and to whom
    writer                  \* a record_reachable call that is under way in another thread

ledger == <<offline_nodes_>>
self_health == <<http_ok, lmq_ok, latest_incoming_http_, latest_incoming_lmq_>>
history == <<streak_start, streak_reported, set_reported_called,
             failed_since_healthy>>
vars == <<now, offline_nodes_, http_ok, lmq_ok, latest_incoming_http_,
          latest_incoming_lmq_, last_call, streak_start, streak_reported,
          set_reported_called, failed_since_healthy, sched, writer>>

\* the callers' state, which a single call of the class leaves alone
callers == <<sched, writer>>

\* no streak is running for the peer
NoStreak == 0 - 1

\* ------------------------------------------------------------- reach_record_t
\* The member initialisers of reach_record_t (declared in the header).
DefaultFlags == [http_ok |-> TRUE, zmq_ok |-> TRUE, reported |-> FALSE]

\* reach_record_t::reach_record_t(): first_failure = now; last_failure = first_failure
reach_record_t(t) ==
    [first_failure |-> t,
     last_failure  |-> t,
     http_ok       |-> DefaultFlags.http_ok,
     zmq_ok        |-> DefaultFlags.zmq_ok,
     reported      |-> DefaultFlags.reported]

\* offline_nodes_.find(sn) != offline_nodes_.end()
HasRecord(nodes, sn) == sn \in DOMAIN nodes

\* record.http_ok && record.zmq_ok
Reachable(record) == record.http_ok /\ record.zmq_ok

\* the map with the entry of sn set to record (insert, or update in place)
Put(nodes, sn, record) ==
    [p \in DOMAIN nodes \cup {sn} |-> IF p = sn THEN record ELSE nodes[p]]

\* offline_nodes_.erase(sn)
Erase(nodes, sn) == [p \in DOMAIN nodes \ {sn} |-> nodes[p]]

\* record.http_ok = val / record.zmq_ok = val, by channel
SetChannel(record, type, val) ==
    IF type = "HTTP" THEN [record EXCEPT !.http_ok = val]
    ELSE [record EXCEPT !.zmq_ok = val]

\* ------------------------------------------------------- should_report_as
\* variant: the reported flag is not consulted
should_report_as_ignoring_reported(nodes, sn, type) ==
    IF ~HasRecord(nodes, sn)
    THEN FALSE
    ELSE LET record == nodes[sn]
             elapsed == record.last_failure - record.first_failure
         IN  IF type = "GOOD"
             THEN Reachable(record)
             ELSE ~Reachable(record) /\ elapsed > UNREACH_GRACE_PERIOD

\* variant: GOOD is answered when either channel is reachable
should_report_as_either_channel(nodes, sn, type) ==
    IF ~HasRecord(nodes, sn)
    THEN FALSE
    ELSE LET record == nodes[sn]
             elapsed == record.last_failure - record.first_failure
         IN  IF type = "GOOD"
             THEN record.http_ok \/ record.zmq_ok
             ELSE /\ ~Reachable(record)
                  /\ ~record.reported
                  /\ elapsed > UNREACH_GRACE_PERIOD

\* variant: the grace period is counted from first_failure to the time of
\* the call
should_report_as_at_call_time(nodes, sn, type) ==
    IF ~HasRecord(nodes, sn)
    THEN FALSE
    ELSE LET record == nodes[sn]
             elapsed == now - record.first_failure
         IN  IF type = "GOOD"
             THEN Reachable(record)
             ELSE /\ ~Reachable(record)
                  /\ ~record.reported
                  /\ elapsed > UNREACH_GRACE_PERIOD

should_report_as(nodes, sn, type) ==
    IF ~HasRecord(nodes, sn)
    THEN FALSE
    ELSE LET record == nodes[sn]
             reachable == Reachable(record)
             elapsed == record.last_failure - record.first_failure
         IN  IF type = "GOOD"
             THEN reachable
             ELSE IF reachable THEN FALSE
                  ELSE IF record.reported THEN FALSE
                  ELSE IF elapsed > UNREACH_GRACE_PERIOD THEN TRUE
                  ELSE FALSE

\* ------------------------------------------------------- record_reachable
\* the record after a failure on channel `type` at time t; `reset` says
\* whether first_failure restarts
Failed(record, type, t, reset) ==
    [SetChannel(record, type, FALSE) EXCEPT
        !.first_failure = IF reset THEN t ELSE @,
        !.last_failure = t]

\* variant: a failure never restarts first_failure
record_reachable_never_resets(nodes, sn, type, val, t) ==
    IF ~HasRecord(nodes, sn)
    THEN IF val THEN nodes
         ELSE Put(nodes, sn, SetChannel(reach_record_t(t), type, FALSE))
    ELSE IF ~val THEN Put(nodes, sn, Failed(nodes[sn], type, t, FALSE))
         ELSE Put(nodes, sn, SetChannel(nodes[sn], type, val))

\* variant: every failure restarts first_failure
record_reachable_always_resets(nodes, sn, type, val, t) ==
    IF ~HasRecord(nodes, sn)
    THEN IF val THEN nodes
         ELSE Put(nodes, sn, SetChannel(reach_record_t(t), type, FALSE))
    ELSE IF ~val THEN Put(nodes, sn, Failed(nodes[sn], type, t, TRUE))
         ELSE Put(nodes, sn, SetChannel(nodes[sn], type, val))

\* variant: the channel flag of an existing record is stored inverted
record_reachable_inverted_flag(nodes, sn, type, val, t) ==
    IF ~HasRecord(nodes, sn)
    THEN IF val THEN nodes
         ELSE Put(nodes, sn, SetChannel(reach_record_t(t), type, FALSE))
    ELSE IF ~val
         THEN Put(nodes, sn,
                  SetChannel(Failed(nodes[sn], type, t, Reachable(nodes[sn])),
                             type, TRUE))
         ELSE Put(nodes, sn, SetChannel(nodes[sn], type, FALSE))

\* variant: a record whose channels are both reachable again is dropped
record_reachable_drops_recovered(nodes, sn, type, val, t) ==
    IF ~HasRecord(nodes, sn)
    THEN IF val THEN nodes
         ELSE Put(nodes, sn, SetChannel(reach_record_t(t), type, FALSE))
    ELSE IF ~val
         THEN Put(nodes, sn, Failed(nodes[sn], type, t, Reachable(nodes[sn])))
         ELSE IF Reachable(SetChannel(nodes[sn], type, val))
              THEN Erase(nodes, sn)
              ELSE Put(nodes, sn, SetChannel(nodes[sn], type, val))

\* variant: a success for a peer without a record creates a record too
record_reachable_records_success(nodes, sn, type, val, t) ==
    IF ~HasRecord(nodes, sn)
    THEN Put(nodes, sn, SetChannel(reach_record_t(t), type, val))
    ELSE IF ~val
         THEN Put(nodes, sn, Failed(nodes[sn], type, t, Reachable(nodes[sn])))
         ELSE Put(nodes, sn, SetChannel(nodes[sn], type, val))

\* variant: a success on an existing record refreshes last_failure too
record_reachable_success_refreshes(nodes, sn, type, val, t) ==
    IF ~HasRecord(nodes, sn)
    THEN IF val THEN nodes
         ELSE Put(nodes, sn, SetChannel(reach_record_t(t), type, FALSE))
    ELSE IF ~val
         THEN Put(nodes, sn, Failed(nodes[sn], type, t, Reachable(nodes[sn])))
         ELSE Put(nodes, sn,
                  [SetChannel(nodes[sn], type, val) EXCEPT !.last_failure = t])

\* variant: a failure that restarts first_failure does not set last_failure
record_reachable_stale_last(nodes, sn, type, val, t) ==
    IF ~HasRecord(nodes, sn)
    THEN IF val THEN nodes
         ELSE Put(nodes, sn, SetChannel(reach_record_t(t), type, FALSE))
    ELSE IF ~val
         THEN IF Reachable(nodes[sn])
              THEN Put(nodes, sn, [SetChannel(nodes[sn], type, FALSE)
                                      EXCEPT !.first_failure = t])
              ELSE Put(nodes, sn, Failed(nodes[sn], type, t, FALSE))
         ELSE Put(nodes, sn, SetChannel(nodes[sn], type, val))

record_reachable(nodes, sn, type, val, t) ==
    LET no_record == ~HasRecord(nodes, sn)
    IN  IF no_record
        THEN IF val
             THEN nodes
             ELSE Put(nodes, sn, SetChannel(reach_record_t(t), type, FALSE))
        ELSE LET reachable_before == Reachable(nodes[sn])
                 flagged == SetChannel(nodes[sn], type, val)
             IN  IF ~val
                 THEN Put(nodes, sn,
                          [flagged EXCEPT
                              !.first_failure =
                                  IF reachable_before THEN t ELSE @,
                              !.last_failure = t])
                 ELSE Put(nodes, sn, flagged)

\* ----------------------------------------------------------------- expire
\* variant: only the record of a peer that is still unreachable is erased
expire_unreachable_only(nodes, sn) ==
    IF HasRecord(nodes, sn) /\ ~Reachable(nodes[sn]) THEN Erase(nodes, sn)
    ELSE nodes

expire(nodes, sn) == Erase(nodes, sn)

\* the value expire returns: whether erase removed an entry
expire_result(nodes, sn) == HasRecord(nodes, sn)

\* ----------------------------------------------------------- set_reported
\* variant: every record is marked, not only the one of sn
set_reported_marks_all(nodes, sn) ==
    IF HasRecord(nodes, sn)
    THEN [p \in DOMAIN nodes |-> [nodes[p] EXCEPT !.reported = TRUE]]
    ELSE nodes

set_reported(nodes, sn) ==
    IF HasRecord(nodes, sn)
    THEN Put(nodes, sn, [nodes[sn] EXCEPT !.reported = TRUE])
    ELSE nodes

\* ----------------------------------------------------------- next_to_test
\* std::min_element over the map with last_failure as the key: the entries
\* no other entry is strictly older than.  The map's iteration order picks
\* among them.
\* variant: the comparison is the wrong way round (the newest failure wins)
next_to_test_newest(nodes) ==
    {p \in DOMAIN nodes :
        \A q \in DOMAIN nodes : ~(nodes[q].last_failure > nodes[p].last_failure)}

next_to_test(nodes) ==
    {p \in DOMAIN nodes :
        \A q \in DOMAIN nodes : ~(nodes[q].last_failure < nodes[p].last_failure)}

\* ------------------------------------------------------ check_incoming_tests
Max(a, b) == IF a >= b THEN a ELSE b

\* duration_cast<seconds>: truncation to whole seconds, kept in clock ticks
ToWholeSeconds(d) == (d \div Second) * Second

\* variant: a channel that was marked unhealthy is never marked healthy again
incoming_ok_never_recovers(ok, latest, reset_time, t) ==
    LET last == Max(reset_time, latest)
        elapsed == ToWholeSeconds(t - last)
    IN  IF elapsed > MAX_TIME_WITHOUT_PING THEN FALSE ELSE ok

\* one channel of check_incoming_tests: the new value of the channel's flag
incoming_ok(ok, latest, reset_time, t) ==
    LET last == Max(reset_time, latest)
        elapsed == ToWholeSeconds(t - last)
    IN  IF elapsed > MAX_TIME_WITHOUT_PING THEN FALSE
        ELSE IF ~ok THEN TRUE
        ELSE ok

\* ------------------------------------------------------------------ calls
NoCall == [op |-> "none", sn |-> "-", type |-> "-", val |-> FALSE,
           ret |-> FALSE, had_record |-> FALSE]

Call(op, sn, type, val, ret, had) ==
    [op |-> op, sn |-> sn, type |-> type, val |-> val, ret |-> ret,
     had_record |-> had]

\* the re-test loop is about to call next_to_test
SchedIdle == [pc |-> "select", sn |-> "-"]

\* no record_reachable call is under way
WriterIdle == [pc |-> "idle", sn |-> "-", type |-> "-", val |-> FALSE,
               reachable_before |-> FALSE, started |-> Epoch, t |-> Epoch,
               before |-> [p \in {} |-> 0]]

Init ==
    /\ now = 0
    /\ offline_nodes_ = [p \in {} |-> 0]
    /\ http_ok = TRUE
    /\ lmq_ok = TRUE
    /\ latest_incoming_http_ = Epoch
    /\ latest_incoming_lmq_ = Epoch
    /\ last_call = NoCall
    /\ streak_start = [p \in Peers |-> NoStreak]
    /\ streak_reported = [p \in Peers |-> FALSE]
    /\ set_reported_called = [p \in Peers |-> FALSE]
    /\ failed_since_healthy = [p \in Peers |-> FALSE]
    /\ sched = SchedIdle
    /\ writer = WriterIdle

\* the steady clock moves forward
Advance ==
    /\ now + Tick <= MaxTime
    /\ now' = now + Tick
    /\ last_call' = NoCall
    /\ UNCHANGED <<ledger, self_health, history, callers>>

\* a failure observation that finds the peer without a record or with both
\* channel flags true starts a streak
StartsStreak(nodes, sn, val) ==
    /\ ~val
    /\ (HasRecord(nodes, sn) => Reachable(nodes[sn]))

\* the peer is known fully healthy: no record, or both channel flags true
FullyHealthy(nodes, sn) == HasRecord(nodes, sn) => Reachable(nodes[sn])

\* failed_since_healthy after a call that observed `failure` for sn
FailedSince(sn, failure) ==
    [failed_since_healthy EXCEPT
        ![sn] = IF FullyHealthy(offline_nodes_', sn) THEN FALSE
                ELSE IF failure THEN TRUE
                ELSE @]

\* one whole call of record_reachable
RecordReachableCall(sn, type, val) ==
    /\ offline_nodes_' = record_reachable(offline_nodes_, sn, type, val, now)
    /\ last_call' = Call("record_reachable", sn, type, val, FALSE,
                         HasRecord(offline_nodes_, sn))
    /\ IF StartsStreak(offline_nodes_, sn, val)
       THEN /\ streak_start' = [streak_start EXCEPT ![sn] = now]
            /\ streak_reported' = [streak_reported EXCEPT ![sn] = FALSE]
       ELSE UNCHANGED <<streak_start, streak_reported>>
    /\ failed_since_healthy' = FailedSince(sn, ~val)
    /\ UNCHANGED <<now, self_health, set_reported_called>>

RecordReachable(sn, type, val) ==
    /\ RecordReachableCall(sn, type, val)
    /\ UNCHANGED callers

\* variant: a true BAD answer marks the record as reported
ShouldReportAsAndMark(sn, type) ==
    LET answer == should_report_as(offline_nodes_, sn, type)
    IN  /\ last_call' = Call("should_report_as", sn, type, FALSE, answer,
                             HasRecord(offline_nodes_, sn))
        /\ offline_nodes_' =
               IF answer /\ type = "BAD"
               THEN Put(offline_nodes_, sn,
                        [offline_nodes_[sn] EXCEPT !.reported = TRUE])
               ELSE offline_nodes_
        /\ UNCHANGED <<now, self_health, history, callers>>

ShouldReportAs(sn, type) ==
    /\ last_call' = Call("should_report_as", sn, type, FALSE,
                         should_report_as(offline_nodes_, sn, type),
                         HasRecord(offline_nodes_, sn))
    /\ UNCHANGED <<now, ledger, self_health, history, callers>>

SetReported(sn) ==
    /\ offline_nodes_' = set_reported(offline_nodes_, sn)
    /\ last_call' = Call("set_reported", sn, "-", FALSE, FALSE,
                         HasRecord(offline_nodes_, sn))
    /\ IF HasRecord(offline_nodes_, sn)
       THEN /\ streak_reported' = [streak_reported EXCEPT ![sn] = TRUE]
            /\ set_reported_called' = [set_reported_called EXCEPT ![sn] = TRUE]
       ELSE UNCHANGED <<streak_reported, set_reported_called>>
    /\ UNCHANGED <<now, self_health, streak_start, failed_since_healthy,
                   callers>>

Expire(sn) ==
    /\ offline_nodes_' = expire(offline_nodes_, sn)
    /\ last_call' = Call("expire", sn, "-", FALSE,
                         expire_result(offline_nodes_, sn),
                         HasRecord(offline_nodes_, sn))
    /\ streak_start' = [streak_start EXCEPT ![sn] = NoStreak]
    /\ streak_reported' = [streak_reported EXCEPT ![sn] = FALSE]
    /\ set_reported_called' = [set_reported_called EXCEPT ![sn] = FALSE]
    /\ failed_since_healthy' = FailedSince(sn, FALSE)
    /\ UNCHANGED <<now, self_health, callers>>

NextToTest ==
    /\ \/ /\ next_to_test(offline_nodes_) = {}
          /\ last_call' = Call("next_to_test", "-", "-", FALSE, FALSE, FALSE)
       \/ \E p \in next_to_test(offline_nodes_) :
              last_call' = Call("next_to_test", p, "-", FALSE, TRUE, TRUE)
    /\ UNCHANGED <<now, ledger, self_health, history, callers>>

CheckIncomingTests(reset_time) ==
    /\ reset_time <= now
    /\ http_ok' = incoming_ok(http_ok, latest_incoming_http_, reset_time, now)
    /\ lmq_ok' = incoming_ok(lmq_ok, latest_incoming_lmq_, reset_time, now)
    /\ last_call' = Call("check_incoming_tests", "-", "-", FALSE, FALSE, FALSE)
    /\ UNCHANGED <<now, ledger, latest_incoming_http_, latest_incoming_lmq_,
                   history, callers>>

Next ==
    \/ Advance
    \/ \E sn \in Peers, type \in ReachType, val \in BOOLEAN :
           RecordReachable(sn, type, val)
    \/ \E sn \in Peers, type \in ReportType : ShouldReportAs(sn, type)
    \/ \E sn \in Peers : SetReported(sn)
    \/ \E sn \in Peers : Expire(sn)
    \/ NextToTest
    \/ \E reset_time \in Times : CheckIncomingTests(reset_time)

Spec == Init /\ [][Next]_vars

\* ------------------------------------------------------------ re-test loop
\* The caller's loop around next_to_test: ask for the next peer, probe it,
\* record the outcome.
SchedSelect ==
    /\ sched.pc = "select"
    /\ \/ /\ next_to_test(offline_nodes_) = {}
          /\ last_call' = Call("next_to_test", "-", "-", FALSE, FALSE, FALSE)
          /\ sched' = sched
       \/ \E p \in next_to_test(offline_nodes_) :
              /\ last_call' = Call("next_to_test", p, "-", FALSE, TRUE, TRUE)
              /\ sched' = [pc |-> "probe", sn |-> p]
    /\ UNCHANGED <<now, ledger, self_health, history, writer>>

\* Two calls never read the same value from the steady clock: a failure of sn
\* is recorded at a reading later than the failures recorded for other peers.
OwnReading(sn, val) ==
    val \/ \A q \in DOMAIN offline_nodes_ \ {sn} :
               offline_nodes_[q].last_failure < now

\* The outcome of the probe of the selected peer is recorded.
SchedRecord(type, val) ==
    /\ sched.pc = "probe"
    /\ OwnReading(sched.sn, val)
    /\ RecordReachableCall(sched.sn, type, val)
    /\ sched' = SchedIdle
    /\ UNCHANGED writer

\* The regular tests of the caller, of peers that next_to_test did not name.
RegularTest(sn, type, val) ==
    /\ OwnReading(sn, val)
    /\ RecordReachable(sn, type, val)

NextSched ==
    \/ Advance
    \/ \E sn \in Peers, type \in ReachType, val \in BOOLEAN :
           RegularTest(sn, type, val)
    \/ SchedSelect
    \/ \E type \in ReachType, val \in BOOLEAN : SchedRecord(type, val)

\* the loop keeps running: it is driven by a periodic timer of the caller
SpecSched ==
    /\ Init
    /\ [][NextSched]_vars
    /\ WF_vars(SchedSelect)
    /\ WF_vars(\E type \in ReachType, val \in BOOLEAN : SchedRecord(type, val))

\* -------------------------------------------------------------- self health
\* The self-health monitor is watched on a finer clock: single clock ticks
\* around whole multiples of MAX_TIME_WITHOUT_PING.
MaxSpans == 2
MaxFine == 3

SelfTimes ==
    {a * MAX_TIME_WITHOUT_PING + b : a \in 0..MaxSpans, b \in 0..MaxFine}

AdvanceFine(d) ==
    /\ now + d \in SelfTimes
    /\ now' = now + d
    /\ last_call' = NoCall
    /\ UNCHANGED <<ledger, self_health, history, callers>>

\* An inbound ping arrives on a channel: its receiver stores the time.
InboundPing(type) ==
    /\ IF type = "HTTP"
       THEN latest_incoming_http_' = now /\ UNCHANGED latest_incoming_lmq_
       ELSE latest_incoming_lmq_' = now /\ UNCHANGED latest_incoming_http_
    /\ last_call' = NoCall
    /\ UNCHANGED <<now, ledger, http_ok, lmq_ok, history, callers>>

NextSelf ==
    \/ \E d \in {1, MAX_TIME_WITHOUT_PING} : AdvanceFine(d)
    \/ \E type \in ReachType : InboundPing(type)
    \/ \E reset_time \in SelfTimes : CheckIncomingTests(reset_time)

SpecSelf == Init /\ [][NextSelf]_vars

\* ------------------------------------------------- calls from two threads
\* No function of the class takes a lock.  A record_reachable call of one
\* thread is therefore followed store by store, while another thread calls
\* should_report_as or next_to_test.

\* lines 130-158: the look-up.  Without a record the call is a single step
\* (nothing, or one insert); with a record it goes on store by store.
WriterBegin(sn, type, val) ==
    /\ writer.pc = "idle"
    /\ IF ~HasRecord(offline_nodes_, sn)
       THEN /\ RecordReachableCall(sn, type, val)
            /\ UNCHANGED callers
       ELSE /\ writer' = [pc |-> "flag", sn |-> sn, type |-> type, val |-> val,
                          reachable_before |-> Reachable(offline_nodes_[sn]),
                          started |-> now, t |-> Epoch,
                          before |-> offline_nodes_]
            /\ last_call' = NoCall
            /\ UNCHANGED <<now, ledger, self_health, history, sched>>

\* lines 161-167: record.http_ok = val, or record.zmq_ok = val.  A success
\* ends the call here.
WriterFlag ==
    /\ writer.pc = "flag"
    /\ offline_nodes_' =
           Put(offline_nodes_, writer.sn,
               SetChannel(offline_nodes_[writer.sn], writer.type, writer.val))
    /\ IF writer.val
       THEN /\ writer' = WriterIdle
            /\ last_call' = Call("record_reachable", writer.sn, writer.type,
                                 writer.val, FALSE, TRUE)
            /\ failed_since_healthy' = FailedSince(writer.sn, FALSE)
       ELSE /\ writer' = [writer EXCEPT !.pc = "first"]
            /\ last_call' = NoCall
            /\ UNCHANGED failed_since_healthy
    /\ UNCHANGED <<now, self_health, streak_start, streak_reported,
                   set_reported_called, sched>>

\* lines 176-180: now = steady_clock::now(); first_failure = now if the peer
\* was reachable before
WriterFirst ==
    /\ writer.pc = "first"
    /\ offline_nodes_' =
           IF writer.reachable_before
           THEN Put(offline_nodes_, writer.sn,
                    [offline_nodes_[writer.sn] EXCEPT !.first_failure = now])
           ELSE offline_nodes_
    /\ writer' = [writer EXCEPT !.pc = "last", !.t = now]
    /\ last_call' = NoCall
    /\ UNCHANGED <<now, self_health, history, sched>>

\* line 182: last_failure = now; the call returns
WriterLast ==
    /\ writer.pc = "last"
    /\ offline_nodes_' =
           Put(offline_nodes_, writer.sn,
               [offline_nodes_[writer.sn] EXCEPT !.last_failure = writer.t])
    /\ writer' = WriterIdle
    /\ last_call' = Call("record_reachable", writer.sn, writer.type,
                         writer.val, FALSE, TRUE)
    /\ IF writer.reachable_before
       THEN /\ streak_start' = [streak_start EXCEPT ![writer.sn] = writer.t]
            /\ streak_reported' = [streak_reported EXCEPT ![writer.sn] = FALSE]
       ELSE UNCHANGED <<streak_start, streak_reported>>
    /\ failed_since_healthy' = FailedSince(writer.sn, TRUE)
    /\ UNCHANGED <<now, self_health, set_reported_called, sched>>

NextConc ==
    \/ Advance
    \/ \E sn \in Peers, type \in ReachType, val \in BOOLEAN :
           WriterBegin(sn, type, val)
    \/ WriterFlag
    \/ WriterFirst
    \/ WriterLast
    \/ \E sn \in Peers, type \in ReportType : ShouldReportAs(sn, type)
    \/ NextToTest

SpecConc == Init /\ [][NextConc]_vars

\* =================================================================== claims
\* the last call was should_report_as(sn, type)
Asked(sn, type) ==
    /\ last_call.op = "should_report_as"
    /\ last_call.sn = sn
    /\ last_call.type = type

\* the peer has a record with at least one channel flag false
Failing(sn) ==
    HasRecord(offline_nodes_, sn) /\ ~Reachable(offline_nodes_[sn])

\* C1: for a peer whose record is unreported and has a channel flag false,
\* should_report_as(peer, BAD) is true exactly when more than 120 minutes
\* have passed between first_failure and the moment of the call, whether or
\* not a later probe result was recorded.
C1_GraceCountsFromCallTime ==
    \A sn \in Peers :
        (Asked(sn, "BAD") /\ Failing(sn) /\ ~offline_nodes_[sn].reported)
            => (last_call.ret <=>
                    now - offline_nodes_[sn].first_failure > UNREACH_GRACE_PERIOD)

\* C2: whenever should_report_as(peer, BAD) returns true the peer has a
\* record with a channel flag false and reported = false, and more than 120
\* minutes have passed since the start of its current unreachable streak.
C2_BadOnlyAfterGrace ==
    \A sn \in Peers :
        (Asked(sn, "BAD") /\ last_call.ret)
            => /\ Failing(sn)
               /\ ~offline_nodes_[sn].reported
               /\ streak_start[sn] # NoStreak
               /\ now - streak_start[sn] > UNREACH_GRACE_PERIOD

\* a BAD question was answered true
C2_Witness ==
    \E sn \in Peers : Asked(sn, "BAD") /\ last_call.ret

\* C3: once set_reported(peer) has been called on an existing record,
\* should_report_as(peer, BAD) is false in every later state until
\* expire(peer) removes the record.
C3_ReportedSilencesBad ==
    \A sn \in Peers :
        set_reported_called[sn]
            => /\ ~should_report_as(offline_nodes_, sn, "BAD")
               /\ (Asked(sn, "BAD") => ~last_call.ret)

\* a reported peer, failing for longer than the grace period, was asked about
C3_Witness ==
    \E sn \in Peers :
        /\ set_reported_called[sn]
        /\ Asked(sn, "BAD")
        /\ Failing(sn)
        /\ offline_nodes_[sn].last_failure - offline_nodes_[sn].first_failure
               > UNREACH_GRACE_PERIOD
        /\ last_call.op = "should_report_as"

\* C4: a record's reported flag is true only if set_reported(peer) was
\* called since the start of the peer's current streak.
C4_ReportedBelongsToStreak ==
    \A sn \in Peers :
        (HasRecord(offline_nodes_, sn) /\ offline_nodes_[sn].reported)
            => streak_reported[sn]

\* C5 as stated: a record exists if and only if a failure has been observed
\* since the peer was last known fully healthy.
C5_RecordIffFailedSinceHealthy ==
    \A sn \in Peers :
        HasRecord(offline_nodes_, sn) <=> failed_since_healthy[sn]

\* C5 as amended: a failure has been observed since the peer was last known
\* fully healthy if and only if the peer has a record with a channel flag
\* false; a record with both flags true may stay in the ledger.
C5_FailingRecordIffFailedSinceHealthy ==
    \A sn \in Peers : failed_since_healthy[sn] <=> Failing(sn)

\* a record retained after both channels recovered
C5_Witness ==
    \E sn \in Peers :
        /\ HasRecord(offline_nodes_, sn)
        /\ Reachable(offline_nodes_[sn])
        /\ ~failed_since_healthy[sn]
        /\ last_call.op = "record_reachable"
        /\ last_call.sn = sn
        /\ last_call.val

\* C6: a record leaves the ledger only by expire of that same peer.
C6_OnlyExpireRemoves ==
    [][\A sn \in Peers :
          (HasRecord(offline_nodes_, sn) /\ ~HasRecord(offline_nodes_', sn))
              => (last_call'.op = "expire" /\ last_call'.sn = sn)]_vars

\* a success made both channels of an existing record healthy, and the
\* record is still there
C6_Witness ==
    \E sn \in Peers :
        /\ last_call.op = "record_reachable"
        /\ last_call.sn = sn
        /\ last_call.val
        /\ last_call.had_record
        /\ HasRecord(offline_nodes_, sn)
        /\ Reachable(offline_nodes_[sn])

\* C7: for a peer with no record, record_reachable(peer, channel, true)
\* leaves the ledger unchanged and record_reachable(peer, channel, false)
\* adds exactly one record: first_failure = last_failure = now, the failed
\* channel's flag false, the other flag true, reported false.
C7_FirstObservation ==
    [][\A sn \in Peers :
          (/\ ~HasRecord(offline_nodes_, sn)
           /\ last_call'.op = "record_reachable"
           /\ last_call'.sn = sn)
              => IF last_call'.val
                 THEN offline_nodes_' = offline_nodes_
                 ELSE /\ DOMAIN offline_nodes_' = DOMAIN offline_nodes_ \cup {sn}
                      /\ \A p \in DOMAIN offline_nodes_ :
                             offline_nodes_'[p] = offline_nodes_[p]
                      /\ offline_nodes_'[sn] =
                             [first_failure |-> now,
                              last_failure  |-> now,
                              http_ok       |-> last_call'.type # "HTTP",
                              zmq_ok        |-> last_call'.type # "ZMQ",
                              reported      |-> FALSE]]_vars

\* a failure was recorded for a peer that had no record, next to another
\* peer's record
C7_Witness ==
    \E sn \in Peers :
        /\ last_call.op = "record_reachable"
        /\ last_call.sn = sn
        /\ ~last_call.val
        /\ ~last_call.had_record
        /\ HasRecord(offline_nodes_, sn)
        /\ DOMAIN offline_nodes_ # {sn}

\* C8: for every record with a channel flag false, first_failure is the
\* time of the most recent failure observation that found the peer without
\* a record or with both channel flags true.
C8_FirstFailureIsStreakStart ==
    \A sn \in Peers :
        Failing(sn) => offline_nodes_[sn].first_failure = streak_start[sn]

\* a failure recorded while the peer was already failing, in a streak that
\* began after a recovery
C8_Witness ==
    \E sn \in Peers :
        /\ last_call.op = "record_reachable"
        /\ last_call.sn = sn
        /\ ~last_call.val
        /\ last_call.had_record
        /\ Failing(sn)
        /\ 0 < offline_nodes_[sn].first_failure
        /\ offline_nodes_[sn].first_failure < offline_nodes_[sn].last_failure

\* C9: should_report_as(peer, GOOD) is true if and only if the peer has a
\* record and both its channel flags are true; for a peer with no record
\* should_report_as is false for GOOD and for BAD.
C9_GoodIffBothChannels ==
    \A sn \in Peers :
        /\ Asked(sn, "GOOD")
               => (last_call.ret <=>
                       /\ HasRecord(offline_nodes_, sn)
                       /\ offline_nodes_[sn].http_ok
                       /\ offline_nodes_[sn].zmq_ok)
        /\ (last_call.op = "should_report_as" /\ last_call.sn = sn
                /\ ~HasRecord(offline_nodes_, sn))
               => ~last_call.ret

\* a GOOD question answered true
C9_Witness ==
    \E sn \in Peers : Asked(sn, "GOOD") /\ last_call.ret

\* C10: expire(peer) returns whether the peer had a record and leaves the
\* ledger without it and otherwise unchanged; afterwards should_report_as
\* is false for both kinds and a failure creates a fresh record.
C10_ExpireForgets ==
    [][\A sn \in Peers :
          (last_call'.op = "expire" /\ last_call'.sn = sn)
              => /\ last_call'.ret = HasRecord(offline_nodes_, sn)
                 /\ DOMAIN offline_nodes_' = DOMAIN offline_nodes_ \ {sn}
                 /\ \A p \in DOMAIN offline_nodes_' :
                        offline_nodes_'[p] = offline_nodes_[p]
                 /\ \A type \in ReportType :
                        ~should_report_as(offline_nodes_', sn, type)
                 /\ \A type \in ReachType :
                        LET fresh == record_reachable(offline_nodes_', sn,
                                                      type, FALSE, now')
                        IN  /\ HasRecord(fresh, sn)
                            /\ ~fresh[sn].reported
                            /\ fresh[sn].first_failure = now']_vars

\* expire removed a record and returned true
C10_Witness ==
    \E sn \in Peers :
        /\ last_call.op = "expire"
        /\ last_call.sn = sn
        /\ last_call.ret
        /\ ~HasRecord(offline_nodes_, sn)

\* C11: next_to_test() returns none if and only if the ledger is empty;
\* otherwise it returns a peer that has a record whose last_failure is less
\* than or equal to that of every record, fully healthy records included;
\* and it leaves the ledger unchanged.
C11_OldestFailureFirst ==
    [][last_call'.op = "next_to_test"
          => /\ offline_nodes_' = offline_nodes_
             /\ ~last_call'.ret <=> DOMAIN offline_nodes_ = {}
             /\ last_call'.ret
                    => /\ last_call'.sn \in DOMAIN offline_nodes_
                       /\ \A q \in DOMAIN offline_nodes_ :
                              offline_nodes_[last_call'.sn].last_failure
                                  <= offline_nodes_[q].last_failure]_vars

\* next_to_test returned a fully healthy record that is older than the
\* failing record of the other peer
C11_Witness ==
    /\ last_call.op = "next_to_test"
    /\ last_call.ret
    /\ Reachable(offline_nodes_[last_call.sn])
    /\ \E q \in DOMAIN offline_nodes_ :
           /\ ~Reachable(offline_nodes_[q])
           /\ offline_nodes_[last_call.sn].last_failure
                  < offline_nodes_[q].last_failure

\* C12: under a scheduler that repeatedly calls next_to_test(), probes the
\* returned peer and records the outcome, every peer that has a record is
\* eventually returned by next_to_test().
C12_EveryRecordIsRetested ==
    \A p \in Peers :
        HasRecord(offline_nodes_, p)
            ~> (last_call.op = "next_to_test" /\ last_call.sn = p)

\* the time since the later of reset_time and the channel's latest inbound ping
SinceSeen(latest, reset_time) == now - Max(reset_time, latest)

\* C13 as stated: after check_incoming_tests(reset_time) each channel's flag
\* is false if and only if now - max(reset_time, latest inbound timestamp)
\* is greater than 18 x PING_PEERS_INTERVAL.
C13_UnhealthyIffStale ==
    [][\A reset_time \in SelfTimes :
          CheckIncomingTests(reset_time)
              => /\ ~http_ok' <=> SinceSeen(latest_incoming_http_, reset_time)
                                      > 18 * PING_PEERS_INTERVAL
                 /\ ~lmq_ok' <=> SinceSeen(latest_incoming_lmq_, reset_time)
                                     > 18 * PING_PEERS_INTERVAL]_vars

\* C13 as amended: the elapsed time is truncated to whole seconds before the
\* comparison, so the flag is false if and only if at least one second more
\* than 18 x PING_PEERS_INTERVAL has passed; each channel on its own and
\* whatever the flag was before.
C13_UnhealthyIffStaleInWholeSeconds ==
    [][\A reset_time \in SelfTimes :
          CheckIncomingTests(reset_time)
              => /\ ~http_ok' <=> SinceSeen(latest_incoming_http_, reset_time)
                                      >= 18 * PING_PEERS_INTERVAL + Second
                 /\ ~lmq_ok' <=> SinceSeen(latest_incoming_lmq_, reset_time)
                                     >= 18 * PING_PEERS_INTERVAL + Second]_vars

\* a check found http healthy again after an inbound ping that is older than
\* the threshold by less than a second, and lmq, never pinged, unhealthy
C13_Witness ==
    /\ last_call.op = "check_incoming_tests"
    /\ http_ok
    /\ ~lmq_ok
    /\ latest_incoming_http_ > Epoch
    /\ latest_incoming_lmq_ = Epoch
    /\ now - latest_incoming_http_ > 18 * PING_PEERS_INTERVAL
    /\ now - latest_incoming_http_ < 18 * PING_PEERS_INTERVAL + Second

\* the ledgers a record_reachable call that is under way can leave behind:
\* one for each clock reading it can take
WriterAfter ==
    {record_reachable(writer.before, writer.sn, writer.type, writer.val, t) :
        t \in {u \in Times : writer.started <= u /\ u <= now}}

\* C14: a should_report_as or next_to_test call that runs while another
\* thread is inside record_reachable returns what it would return in some
\* serial order of the two calls: on the ledger before the record_reachable
\* call, or on the ledger after it.
C14_CallsAppearAtomic ==
    writer.pc # "idle"
        => /\ \A sn \in Peers, type \in ReportType :
                  Asked(sn, type)
                      => \E nodes \in {writer.before} \cup WriterAfter :
                             last_call.ret = should_report_as(nodes, sn, type)
           /\ (last_call.op = "next_to_test" /\ last_call.ret)
                  => \E nodes \in {writer.before} \cup WriterAfter :
                         last_call.sn \in next_to_test(nodes)

\* the last call observed a failure of sn
FailureSeen(sn) ==
    /\ last_call.op = "record_reachable"
    /\ last_call.sn = sn
    /\ ~last_call.val

\* C15: on an existing record a success changes only that channel's flag and
\* a failure sets last_failure to now; last_failure changes in no other
\* way, so it is the time of the latest failure observation of the peer.
C15_LastFailureIsLatestFailure ==
    [][\A sn \in Peers :
          HasRecord(offline_nodes_', sn)
              => /\ FailureSeen(sn)' => offline_nodes_'[sn].last_failure = now
                 /\ ~FailureSeen(sn)'
                        => /\ HasRecord(offline_nodes_, sn)
                           /\ offline_nodes_'[sn].last_failure
                                  = offline_nodes_[sn].last_failure
                 /\ (/\ HasRecord(offline_nodes_, sn)
                     /\ last_call'.op = "record_reachable"
                     /\ last_call'.sn = sn
                     /\ last_call'.val)
                        => offline_nodes_'[sn] =
                               [first_failure |-> offline_nodes_[sn].first_failure,
                                last_failure  |-> offline_nodes_[sn].last_failure,
                                reported      |-> offline_nodes_[sn].reported,
                                http_ok |-> IF last_call'.type = "HTTP" THEN TRUE
                                            ELSE offline_nodes_[sn].http_ok,
                                zmq_ok  |-> IF last_call'.type = "ZMQ" THEN TRUE
                                            ELSE offline_nodes_[sn].zmq_ok]]_vars

\* a success was recorded, later than the last failure, for a peer that is
\* still failing on the other channel
C15_Witness ==
    \E sn \in Peers :
        /\ last_call.op = "record_reachable"
        /\ last_call.sn = sn
        /\ last_call.val
        /\ last_call.had_record
        /\ Failing(sn)
        /\ offline_nodes_[sn].last_failure < now

\* C16: should_report_as leaves the whole state unchanged, and
\* check_incoming_tests leaves every record of the ledger unchanged.
C16_ReadOnlyCalls ==
    [][/\ last_call'.op = "should_report_as"
           => UNCHANGED <<now, offline_nodes_, http_ok, lmq_ok,
                          latest_incoming_http_, latest_incoming_lmq_>>
       /\ last_call'.op = "check_incoming_tests"
           => offline_nodes_' = offline_nodes_]_vars

\* a BAD question was answered true, and the record is still unreported
C16_Witness ==
    \E sn \in Peers :
        /\ Asked(sn, "BAD")
        /\ last_call.ret
        /\ ~offline_nodes_[sn].reported

\* C17: set_reported(peer) sets reported of the peer's record and changes
\* nothing else; a second call changes nothing; without a record the ledger
\* stays as it is.
C17_SetReportedIdempotent ==
    [][\A sn \in Peers :
          (last_call'.op = "set_reported" /\ last_call'.sn = sn)
              => /\ DOMAIN offline_nodes_' = DOMAIN offline_nodes_
                 /\ \A p \in DOMAIN offline_nodes_ :
                        offline_nodes_'[p] =
                            [first_failure |-> offline_nodes_[p].first_failure,
                             last_failure  |-> offline_nodes_[p].last_failure,
                             http_ok       |-> offline_nodes_[p].http_ok,
                             zmq_ok        |-> offline_nodes_[p].zmq_ok,
                             reported      |-> IF p = sn THEN TRUE
                                               ELSE offline_nodes_[p].reported]
                 /\ set_reported(offline_nodes_', sn) = offline_nodes_']_vars

\* set_reported marked one of two unreported records
C17_Witness ==
    \E sn \in Peers :
        /\ last_call.op = "set_reported"
        /\ last_call.sn = sn
        /\ last_call.had_record
        /\ offline_nodes_[sn].reported
        /\ \E p \in DOMAIN offline_nodes_ : ~offline_nodes_[p].reported

\* C18: every record has first_failure <= last_failure.
C18_FirstNotAfterLast ==
    \A sn \in DOMAIN offline_nodes_ :
        offline_nodes_[sn].first_failure <= offline_nodes_[sn].last_failure

\* a failure that found the record fully healthy has restarted the streak:
\* both times are the time of that failure
C18_Witness ==
    \E sn \in Peers :
        /\ FailureSeen(sn)
        /\ last_call.had_record
        /\ offline_nodes_[sn].first_failure = now
        /\ offline_nodes_[sn].last_failure = now
        /\ now > 0

====
